---- MODULE Spec2Model ----
\* Model of src/main.py: FragmentClient (session ownership, get_gifts,
\* get_gift_info).  A text is a sequence of one-character strings; a parsed
\* element's content is the sequence of its text nodes in document order.
EXTENDS Integers, Sequences, FiniteSets, TLC

VARIABLES
    page,       \* the parsed catalog page handed to the last get_gifts call
    gifts,      \* outcome of the last get_gifts call
    doc,        \* the parsed detail page handed to the last get_gift_info call
    args,       \* (gift_id, type_gift) of the last get_gift_info call
    info,       \* outcome of the last get_gift_info call
    clients,    \* per client object: constructed?, _session, _own_session, last step
    sessions    \* per session object: state, who made it, who closed it

vars == <<page, gifts, doc, args, info, clients, sessions>>

-----------------------------------------------------------------------------
\* Bounds of the model.

MaxItems == 2       \* grid-item rows on a catalog page
MaxPriceLen == 3    \* characters in one text node of a price cell
MaxRows == 2        \* rows in the attributes table / in the history table
MaxTonLen == 2      \* characters in one string of the primary price element
MaxSessions == 2    \* session objects that may come to exist

-----------------------------------------------------------------------------
\* Optional values (Python None / a value).

None == [some |-> FALSE]
Some(v) == [some |-> TRUE, v |-> v]
Opt(S) == {None} \cup {Some(v) : v \in S}

\* All sequences over S of length lo..hi.
SeqsOf(S, lo, hi) == UNION {[1..n -> S] : n \in lo..hi}

-----------------------------------------------------------------------------
\* Text helpers (Python str methods and bs4 text extraction).

Digits == {"0", "1", "2", "3", "4", "5", "6", "7", "8", "9"}
DigitVal(c) ==
    CASE c = "0" -> 0 [] c = "1" -> 1 [] c = "2" -> 2 [] c = "3" -> 3
      [] c = "4" -> 4 [] c = "5" -> 5 [] c = "6" -> 6 [] c = "7" -> 7
      [] c = "8" -> 8 [] c = "9" -> 9

Tail1(t) == IF Len(t) = 0 THEN t ELSE Tail(t)           \* t[1:]
Front(t) == SubSeq(t, 1, Len(t) - 1)

RECURSIVE LStrip(_)
LStrip(t) == IF Len(t) > 0 /\ Head(t) = " " THEN LStrip(Tail(t)) ELSE t
RECURSIVE RStrip(_)
RStrip(t) == IF Len(t) > 0 /\ t[Len(t)] = " " THEN RStrip(Front(t)) ELSE t
\* str.strip()
Strip(t) == RStrip(LStrip(t))

\* str.replace(c, '')
Remove(t, c) == SelectSeq(t, LAMBDA x : x # c)

\* c in t
Contains(t, c) == \E i \in 1..Len(t) : t[i] = c

\* index of the last / first occurrence of c in t (0 if none)
LastIndex(t, c) == IF Contains(t, c) THEN CHOOSE i \in 1..Len(t) :
                        t[i] = c /\ \A j \in (i+1)..Len(t) : t[j] # c
                   ELSE 0
FirstIndex(t, c) == IF Contains(t, c) THEN CHOOSE i \in 1..Len(t) :
                        t[i] = c /\ \A j \in 1..(i-1) : t[j] # c
                    ELSE 0

\* Tag.text / get_text(): all text nodes concatenated, nothing stripped.
RECURSIVE GetText(_)
GetText(cell) == IF Len(cell) = 0 THEN <<>> ELSE Head(cell) \o GetText(Tail(cell))

\* get_text(strip=True): every text node stripped, empty ones dropped, joined by ''.
RECURSIVE GetTextStrip(_)
GetTextStrip(cell) ==
    IF Len(cell) = 0 THEN <<>> ELSE Strip(Head(cell)) \o GetTextStrip(Tail(cell))

-----------------------------------------------------------------------------
\* Numbers.  A float is kept as the exact decimal it was read from:
\* [m, e] stands for m * 10^(-e), normalised so that equal numbers are equal records.

RECURSIVE Normalise(_)
Normalise(n) == IF n.e > 0 /\ n.m % 10 = 0
                THEN Normalise([m |-> n.m \div 10, e |-> n.e - 1]) ELSE n

\* Outcome of a parse: a value or a raised exception.
Ok(v) == [ok |-> TRUE, v |-> v]
Raise(x) == [ok |-> FALSE, exc |-> x]

\* Scanner of float(): digits, at most one '.', at least one digit.
\* (Signs, exponents, underscores, inf and nan need characters that the
\* input alphabets below do not contain; any other character is an error.)
\* st: "int" before the point, "frac" after it.
RECURSIVE FloatScan(_, _, _, _, _)
FloatScan(t, st, m, e, nd) ==
    IF Len(t) = 0
    THEN IF nd > 0 THEN Ok(Normalise([m |-> m, e |-> e])) ELSE Raise("ValueError")
    ELSE LET c == Head(t) IN
         IF c \in Digits
         THEN FloatScan(Tail(t), st, 10 * m + DigitVal(c),
                        IF st = "frac" THEN e + 1 ELSE e, nd + 1)
         ELSE IF c = "." /\ st = "int"
         THEN FloatScan(Tail(t), "frac", m, e, nd)
         ELSE Raise("ValueError")

\* float(text): surrounding whitespace is ignored.
Float(t) == FloatScan(Strip(t), "int", 0, 0, 0)

RECURSIVE IntScan(_, _, _)
IntScan(t, m, nd) ==
    IF Len(t) = 0
    THEN IF nd > 0 THEN Ok(m) ELSE Raise("ValueError")
    ELSE IF Head(t) \in Digits
         THEN IntScan(Tail(t), 10 * m + DigitVal(Head(t)), nd + 1)
         ELSE Raise("ValueError")

\* int(text): surrounding whitespace is ignored, digits only.
Int_(t) == IntScan(Strip(t), 0, 0)

-----------------------------------------------------------------------------
\* get_gifts (src/main.py:62-106).
\* A grid item: its href attribute ('' when absent) and its .item-num,
\* .item-name and .icon-ton cells (None when select_one finds nothing).

base_url == <<"h","t","t","p","s",":","/","/","f","r","a","g","m","e","n","t",".","c","o","m">>

\* str.split(c): the pieces of t between the occurrences of c.
RECURSIVE SplitOn(_, _)
SplitOn(t, c) ==
    LET i == FirstIndex(t, c) IN
    IF i = 0 THEN <<t>>
    ELSE <<SubSeq(t, 1, i - 1)>> \o SplitOn(SubSeq(t, i + 1, Len(t)), c)

\* '/'.join(segments)
RECURSIVE JoinSlash(_)
JoinSlash(segments) ==
    IF Len(segments) = 0 THEN <<>>
    ELSE IF Len(segments) = 1 THEN Head(segments)
    ELSE Head(segments) \o <<"/">> \o JoinSlash(Tail(segments))

\* urljoin(base_url, href) for hrefs without scheme, dot segments, params,
\* query or fragment.  The base has scheme https, host fragment.com and an
\* empty path.  An href '//host...' names its own host; with an empty host
\* the base's host is kept.  An absolute path replaces the base's path; a
\* relative one is appended to it, its empty middle segments dropped.
urljoin(href) ==
    LET slashes == Len(href) >= 2 /\ href[1] = "/" /\ href[2] = "/"
        rest    == IF slashes THEN SubSeq(href, 3, Len(href)) ELSE href
        delim   == FirstIndex(rest, "/")
        netloc  == IF ~slashes THEN <<>>
                   ELSE IF delim = 0 THEN rest ELSE SubSeq(rest, 1, delim - 1)
        path    == IF ~slashes THEN href
                   ELSE IF delim = 0 THEN <<>> ELSE SubSeq(rest, delim, Len(rest))
        parts   == SplitOn(path, "/")
        middle  == SelectSeq(SubSeq(parts, 1, Len(parts) - 1), LAMBDA x : Len(x) > 0)
    IN IF Len(href) = 0 THEN base_url
       ELSE IF Len(netloc) > 0 THEN <<"h","t","t","p","s",":","/","/">> \o netloc \o path
       ELSE IF Len(path) = 0 THEN base_url
       ELSE IF path[1] = "/" THEN base_url \o path
       ELSE base_url \o <<"/">> \o JoinSlash(middle \o <<parts[Len(parts)]>>)

\* href.split('/')[-1].split('-')[0]
GiftType(href) ==
    LET last == SubSeq(href, LastIndex(href, "/") + 1, Len(href))
        dash == FirstIndex(last, "-")
    IN IF dash = 0 THEN last ELSE SubSeq(last, 1, dash - 1)

\* int(item.select_one('.item-num').text.strip()[1:])
GiftId(num) ==
    IF ~num.some THEN Raise("AttributeError")
    ELSE Int_(Tail1(Strip(GetText(num.v))))

\* item.select_one('.item-name').text.strip()
GiftName(name) ==
    IF ~name.some THEN Raise("AttributeError")
    ELSE Ok(Strip(GetText(name.v)))

\* (variant: the commas are left in the text)
GiftPrice_KeepCommas(raw_price) ==
    IF ~raw_price.some THEN [price |-> None, is_sale |-> FALSE]
    ELSE LET f == Float(GetTextStrip(raw_price.v))
         IN IF f.ok THEN [price |-> Some(f.v), is_sale |-> TRUE]
            ELSE [price |-> None, is_sale |-> FALSE]

\* Lines 85-94: price and is_sale from the .icon-ton cell.
GiftPrice(raw_price) ==
    IF ~raw_price.some THEN [price |-> None, is_sale |-> FALSE]
    ELSE LET f == Float(Remove(GetTextStrip(raw_price.v), ","))
         IN IF f.ok THEN [price |-> Some(f.v), is_sale |-> TRUE]
            ELSE [price |-> None, is_sale |-> FALSE]

\* One pass of the loop body: the Gift built from an item, or the exception.
MakeGift(item) ==
    LET g_id == GiftId(item.num)
        name == GiftName(item.name)
        p    == GiftPrice(item.price)
    IN IF ~g_id.ok THEN g_id
       ELSE IF ~name.ok THEN name
       ELSE Ok([id |-> g_id.v, name |-> name.v, type |-> GiftType(item.href),
                price |-> p.price, url |-> urljoin(item.href),
                is_sale |-> p.is_sale])

\* (variant: the new Gift goes to the front)
AppendGift_Front(result, g) == <<g>> \o result

\* result.append(Gift(...))
AppendGift(result, g) == Append(result, g)

NotCalled == [status |-> "none"]
Returned(v) == [status |-> "returned", value |-> v]
Raised(x) == [status |-> "raised", exc |-> x]

\* for item in items: ... ; return result
RECURSIVE GiftsLoop(_, _)
GiftsLoop(items, result) ==
    IF Len(items) = 0 THEN Returned(result)
    ELSE LET g == MakeGift(Head(items))
         IN IF g.ok THEN GiftsLoop(Tail(items), AppendGift(result, g.v))
            ELSE Raised(g.exc)

get_gifts(items) == GiftsLoop(items, <<>>)

-----------------------------------------------------------------------------
\* get_gift_info (src/main.py:108-175).
\* A detail page: the rows of the .tm-table-fixed table (None when the table
\* is absent), the .tm-section-bid-info block (None when absent) with its
\* .tm-value element (a sequence of child nodes: a direct string, or a nested
\* element with its text) and its .tm-usd-value cell, and the rows of the
\* history table.  A row is the sequence of its td cells.

Letters == <<"a","b","c","d","e","f","g","h","i","j","k","l","m",
             "n","o","p","q","r","s","t","u","v","w","x","y","z">>
Capitals == <<"A","B","C","D","E","F","G","H","I","J","K","L","M",
              "N","O","P","Q","R","S","T","U","V","W","X","Y","Z">>
LowerChar(c) == IF \E i \in 1..Len(Capitals) : Capitals[i] = c
                THEN Letters[CHOOSE i \in 1..Len(Capitals) : Capitals[i] = c]
                ELSE c
\* str.lower()
Lower(t) == [i \in 1..Len(t) |-> LowerChar(t[i])]

Unknown == <<"U","n","k","n","o","w","n">>
KeyOwner == <<"o","w","n","e","r">>
KeyModel == <<"m","o","d","e","l">>
KeyBackdrop == <<"b","a","c","k","d","r","o","p">>
KeySymbol == <<"s","y","m","b","o","l">>
KeyIssued == <<"i","s","s","u","e","d">>

\* soup.select('.tm-table-fixed tr')
FixedRows(d) == IF d.fixed.some THEN d.fixed.v ELSE <<>>

\* info_table[key] = cells[1], a later row replacing an earlier one
PutRow(table, row) ==
    IF Len(row) >= 2
    THEN LET key == Lower(GetTextStrip(row[1]))
         IN [k \in DOMAIN table \cup {key} |-> IF k = key THEN row[2] ELSE table[k]]
    ELSE table

\* Lines 112-117: the key -> cell lookup.
RECURSIVE InfoTableFrom(_, _)
InfoTableFrom(rows, table) ==
    IF Len(rows) = 0 THEN table
    ELSE InfoTableFrom(Tail(rows), PutRow(table, Head(rows)))
InfoTable(d) == InfoTableFrom(FixedRows(d), <<>>)

\* (variant: the text is cut at its first space)
DropLastToken_FirstSpace(text) ==
    IF Contains(text, " ") THEN SubSeq(text, 1, FirstIndex(text, " ") - 1) ELSE text

\* text.rsplit(' ', 1)[0] if ' ' in text else text
DropLastToken(text) ==
    IF Contains(text, " ") THEN SubSeq(text, 1, LastIndex(text, " ") - 1) ELSE text

\* Lines 119-123.
clean_val(table, key) ==
    IF key \notin DOMAIN table THEN Unknown
    ELSE DropLastToken(GetTextStrip(table[key]))

\* str.split(): the maximal runs of non-blank characters.
RECURSIVE Split(_)
Split(t) ==
    LET u == LStrip(t) IN
    IF Len(u) = 0 THEN <<>>
    ELSE LET sp == FirstIndex(u, " ")
             n == IF sp = 0 THEN Len(u) ELSE sp - 1
         IN <<SubSeq(u, 1, n)>> \o Split(SubSeq(u, n + 1, Len(u)))

\* xs[0::2]
RECURSIVE EveryOther(_)
EveryOther(xs) ==
    IF Len(xs) = 0 THEN <<>>
    ELSE <<Head(xs)>> \o EveryOther(Tail1(Tail(xs)))

\* Lines 125-126.
IssuedList(table) ==
    IF KeyIssued \in DOMAIN table
    THEN EveryOther(Split(GetTextStrip(table[KeyIssued]))) ELSE <<>>

\* (variant: no default for an empty owner text)
Owner_NoDefault(table) ==
    IF KeyOwner \in DOMAIN table THEN GetTextStrip(table[KeyOwner]) ELSE <<>>

\* info_table.get('owner', BeautifulSoup('', 'lxml')).get_text(strip=True) or "Unknown"
Owner(table) ==
    LET text == IF KeyOwner \in DOMAIN table THEN GetTextStrip(table[KeyOwner]) ELSE <<>>
    IN IF Len(text) = 0 THEN Unknown ELSE text

\* ton_el.find(string=True, recursive=False): the first direct string child.
RECURSIVE FirstDirectString(_)
FirstDirectString(children) ==
    IF Len(children) = 0 THEN None
    ELSE IF Head(children).direct THEN Some(Head(children).s)
    ELSE FirstDirectString(Tail(children))

\* (variant: is_sale is set before the text is parsed)
TonPrice_SaleBeforeParse(ton_el) ==
    IF ~ton_el.some THEN [ton_price |-> None, is_sale |-> FALSE]
    ELSE LET ton_raw == FirstDirectString(ton_el.v)
         IN IF ton_raw.some /\ Len(ton_raw.v) > 0
            THEN LET f == Float(Remove(Strip(ton_raw.v), ","))
                 IN IF f.ok THEN [ton_price |-> Some(f.v), is_sale |-> TRUE]
                    ELSE [ton_price |-> None, is_sale |-> TRUE]
            ELSE [ton_price |-> None, is_sale |-> FALSE]

\* Lines 137-144: ton_price and is_sale from the .tm-value element.
TonPrice(ton_el) ==
    IF ~ton_el.some THEN [ton_price |-> None, is_sale |-> FALSE]
    ELSE LET ton_raw == FirstDirectString(ton_el.v)
         IN IF ton_raw.some /\ Len(ton_raw.v) > 0
            THEN LET f == Float(Remove(Strip(ton_raw.v), ","))
                 IN IF f.ok THEN [ton_price |-> Some(f.v), is_sale |-> TRUE]
                    ELSE [ton_price |-> None, is_sale |-> FALSE]
            ELSE [ton_price |-> None, is_sale |-> FALSE]

\* Lines 146-151: usd_price from the .tm-usd-value cell.
UsdPrice(usd_el) ==
    IF ~usd_el.some THEN None
    ELSE LET f == Float(Remove(Remove(Remove(GetTextStrip(usd_el.v), "$"), ","), "~"))
         IN IF f.ok THEN Some(f.v) ELSE None

\* OwnershipHistory(price=..., date=..., buyer=...)
HistoryEntry(cols) ==
    [price |-> GetTextStrip(cols[1]), date |-> GetTextStrip(cols[2]),
     buyer |-> GetTextStrip(cols[3])]

\* (variant: only rows of exactly three cells)
HistoryRow_Exactly3(cols) == Len(cols) = 3

\* if len(cols) >= 3
HistoryRow(cols) == Len(cols) >= 3

\* Lines 153-161.
RECURSIVE History(_)
History(rows) ==
    IF Len(rows) = 0 THEN <<>>
    ELSE IF HistoryRow(Head(rows))
         THEN <<HistoryEntry(Head(rows))>> \o History(Tail(rows))
         ELSE History(Tail(rows))

\* (variant: the id is taken from the page)
InfoKey_FromPage(d, gift_id, type_gift) ==
    [id |-> Len(FixedRows(d)), type |-> type_gift]

\* id=gift_id, type=type_gift
InfoKey(d, gift_id, type_gift) == [id |-> gift_id, type |-> type_gift]

get_gift_info(d, gift_id, type_gift) ==
    LET info_table == InfoTable(d)
        key == InfoKey(d, gift_id, type_gift)
        ton == IF d.bid.some THEN TonPrice(d.bid.v.ton)
               ELSE [ton_price |-> None, is_sale |-> FALSE]
        usd == IF d.bid.some THEN UsdPrice(d.bid.v.usd) ELSE None
    IN Returned([id |-> key.id,
                 type |-> key.type,
                 owner |-> Owner(info_table),
                 model |-> clean_val(info_table, KeyModel),
                 backdrop |-> clean_val(info_table, KeyBackdrop),
                 symbol |-> clean_val(info_table, KeySymbol),
                 issued |-> IssuedList(info_table),
                 ton_price |-> ton.ton_price,
                 usd_price |-> usd,
                 is_sale |-> ton.is_sale,
                 history |-> History(d.hist)])

-----------------------------------------------------------------------------
\* Inputs.

Hrefs == {<<>>, <<"/","g","/","a","-","1">>}
NumCells == {None, Some(<<<<"#","1">>>>), Some(<<<<"#","2">>>>), Some(<<<<"#","x">>>>)}
NameCells == {None, Some(<<<<"a">>>>)}
SmallPriceCells == {None, Some(<<<<"1">>>>), Some(<<<<"x">>>>)}
ListingItems == [href : Hrefs, num : NumCells, name : NameCells, price : SmallPriceCells]
ListingPages == SeqsOf(ListingItems, 0, MaxItems)

\* hrefs of every shape urljoin tells apart: absent, absolute, relative,
\* relative with empty segments, '//' with and without a host
WideHrefs == {<<>>, <<"/","g","/","a","-","1">>, <<"a","-","1">>, <<"a","/","/">>,
              <<"/","/">>, <<"/","/","/">>, <<"/","/","a","/","g">>}
PriceChars == {"0", "1", ",", ".", "x", " "}
PriceTexts == SeqsOf(PriceChars, 1, MaxPriceLen)
PriceCells == {<<>>} \cup {<<t>> : t \in PriceTexts}
                \cup {<<<<a>>, <<b>>>> : a, b \in PriceChars}
PriceItems == [href : WideHrefs, num : {Some(<<<<"#","7">>>>)},
               name : {Some(<<<<"a">>>>)}, price : Opt(PriceCells)]
PricePages == SeqsOf(PriceItems, 1, 1)

\* Attribute rows: a key cell alone, or a key cell and a value cell.
KeyCells == {<<KeyModel>>, <<<<"M">> \o Tail(KeyModel), <<" ">>>>,
             <<KeyBackdrop>>, <<KeySymbol>>, <<KeyOwner>>}
ValueCells == {<<<<"V", " ", "3", "%">>>>, <<<<"R">>>>,
               <<<<"D", " ", "S", " ", "3">>>>, <<<<"V", " ">>, <<"3">>>>,
               <<<<" ">>>>}
AttrRows == {<<k>> : k \in KeyCells} \cup {<<k, v>> : k \in KeyCells, v \in ValueCells}
AttrTables == SeqsOf(AttrRows, 0, MaxRows)
IssuedTable == <<<<<<KeyIssued>>, <<<<"1", " ", "o", "f", " ", "9">>>>>>,
                 <<<<KeyOwner>>, <<<<"U", "Q">>>>>>>>

GiftIds == {1, 2}
GiftTypes == {<<"a">>, <<"b">>}

AttrDocs == [fixed : Opt(AttrTables), bid : {None}, hist : {<<>>}]

\* Children of the primary price element.
TonChars == {"1", ",", "x", " "}
TonTexts == SeqsOf(TonChars, 1, MaxTonLen)
Direct(t) == [direct |-> TRUE, s |-> t]
Nested(t) == [direct |-> FALSE, s |-> t]
TonElements ==
    {<<>>, <<Nested(<<"1">>)>>}
      \cup {<<Direct(t)>> : t \in TonTexts}
      \cup {<<Nested(<<"1">>), Direct(t)>> : t \in TonTexts}
      \cup {<<Direct(t), Nested(<<"1">>)>> : t \in TonTexts}
      \cup {<<Direct(<<" ">>), Direct(t)>> : t \in TonTexts}
UsdCells == {<<<<"~", "$", "4", "5", ".", "2", "0">>>>, <<<<"$", "1", ",", "0", "0", "0">>>>,
             <<<<"x">>>>}
BidBlocks == [ton : Opt(TonElements), usd : Opt(UsdCells)]
BidDocs == [fixed : {None, Some(IssuedTable)}, bid : Opt(BidBlocks), hist : {<<>>}]

\* History rows of one to four cells.
HistCells == {<<<<"1", "0", " ", "T">>>>, <<<<" ", "B">>, <<"o", " ">>>>}
HistRows == SeqsOf(HistCells, 1, 4)
HistDocs == [fixed : {None}, bid : {None}, hist : SeqsOf(HistRows, 0, MaxRows)]

NoPage == <<>>
NoDoc == <<>>
NoArgs == <<>>
NoClients == <<>>
NoSessions == <<>>

Clients == {"c1", "c2"}
SessionIds == 1..MaxSessions

-----------------------------------------------------------------------------
\* Operations.

GetGifts ==
    /\ gifts' = get_gifts(page)
    /\ UNCHANGED <<page, doc, args, info, clients, sessions>>

InitListing ==
    /\ page \in ListingPages
    /\ gifts = NotCalled
    /\ doc = NoDoc /\ args = NoArgs /\ info = NotCalled
    /\ clients = NoClients /\ sessions = NoSessions

InitPrice ==
    /\ page \in PricePages
    /\ gifts = NotCalled
    /\ doc = NoDoc /\ args = NoArgs /\ info = NotCalled
    /\ clients = NoClients /\ sessions = NoSessions

NextListing == GetGifts

SpecListing == InitListing /\ [][NextListing]_vars
SpecPrice == InitPrice /\ [][NextListing]_vars

GetGiftInfo ==
    /\ info' = get_gift_info(doc, args[1], args[2])
    /\ UNCHANGED <<page, gifts, doc, args, clients, sessions>>

InitDetail(docs) ==
    /\ doc \in docs
    /\ args \in GiftIds \X GiftTypes
    /\ info = NotCalled
    /\ page = NoPage /\ gifts = NotCalled
    /\ clients = NoClients /\ sessions = NoSessions

NextDetail == GetGiftInfo

SpecAttrs == InitDetail(AttrDocs) /\ [][NextDetail]_vars
SpecBid == InitDetail(BidDocs) /\ [][NextDetail]_vars
SpecHist == InitDetail(HistDocs) /\ [][NextDetail]_vars

-----------------------------------------------------------------------------
\* Properties of get_gifts.

Called == gifts.status # "none"
BadId(item) == ~item.num.some \/ ~Int_(Tail1(Strip(GetText(item.num.v)))).ok

\* The summaries of the rows whose id is readable, in page order.
RECURSIVE KeptSummaries(_)
KeptSummaries(items) ==
    IF Len(items) = 0 THEN <<>>
    ELSE IF BadId(Head(items)) THEN KeptSummaries(Tail(items))
    ELSE <<MakeGift(Head(items)).v>> \o KeptSummaries(Tail(items))

\* C1: on a page that has a row whose id cell is missing or not an integer
\* (all rows with a readable id being complete), get_gifts does not raise and
\* returns exactly the summaries of the other rows.
C1_BadIdRowDropped ==
    ( /\ Called
      /\ \E i \in 1..Len(page) : BadId(page[i])
      /\ \A i \in 1..Len(page) : ~BadId(page[i]) => page[i].name.some )
    => ( /\ gifts.status = "returned"
         /\ gifts.value = KeptSummaries(page) )

\* C2: on a page whose rows all have a readable id, a row without name cell or
\* without price cell is still emitted: get_gifts returns one summary per row,
\* and a row without price cell has price absent and is_sale false.
C2_MissingNameOrPriceDegrades ==
    ( /\ Called
      /\ \A i \in 1..Len(page) : ~BadId(page[i]) )
    => ( /\ gifts.status = "returned"
         /\ Len(gifts.value) = Len(page)
         /\ \A i \in 1..Len(page) : ~page[i].price.some =>
                gifts.value[i].price = None /\ ~gifts.value[i].is_sale )

\* The number a text denotes, read off its digits: the text (surrounding
\* blanks aside) is digits with at most one point and at least one digit.
IsNumber(t) ==
    LET u == Strip(t) IN
    /\ \A i \in 1..Len(u) : u[i] \in Digits \cup {"."}
    /\ Cardinality({i \in 1..Len(u) : u[i] = "."}) <= 1
    /\ \E i \in 1..Len(u) : u[i] \in Digits
RECURSIVE DecVal(_)
DecVal(d) == IF Len(d) = 0 THEN 0 ELSE 10 * DecVal(Front(d)) + DigitVal(d[Len(d)])
NumberOf(t) ==
    LET u == Strip(t)
        p == FirstIndex(u, ".")
    IN Normalise([m |-> DecVal(Remove(u, ".")),
                  e |-> IF p = 0 THEN 0 ELSE Len(u) - p])

\* C3: every summary get_gifts produces has price = the number its price-icon
\* text denotes once commas are removed and is_sale true, when there is such a
\* cell and such a number; otherwise price absent and is_sale false; a price
\* never makes get_gifts raise; is_sale holds exactly when price is present.
C3_PriceParsedOrAbsent ==
    Called =>
      /\ gifts.status = "returned"
      /\ Len(gifts.value) = Len(page)
      /\ \A k \in 1..Len(gifts.value) :
            LET cell == page[k].price
                g == gifts.value[k]
            IN /\ IF cell.some /\ IsNumber(Remove(GetTextStrip(cell.v), ","))
                  THEN /\ g.price = Some(NumberOf(Remove(GetTextStrip(cell.v), ",")))
                       /\ g.is_sale
                  ELSE g.price = None /\ ~g.is_sale
               /\ g.is_sale <=> g.price.some

\* A comma-grouped price was read: "1,0" gave 10 and is_sale.
C3_Witness ==
    /\ gifts.status = "returned"
    /\ page[1].price = Some(<<<<"1", ",", "0">>>>)
    /\ gifts.value[1].price = Some([m |-> 10, e |-> 0])
    /\ gifts.value[1].is_sale

\* C8: the summaries get_gifts returns come from rows of the page taken in
\* document order, no row twice (a strictly increasing choice of rows); a page
\* without rows gives the empty sequence and no error.
C8_DocumentOrder ==
    Called =>
      /\ gifts.status = "returned" =>
            \E f \in [1..Len(gifts.value) -> 1..Len(page)] :
               /\ \A j, k \in 1..Len(gifts.value) : j < k => f[j] < f[k]
               /\ \A k \in 1..Len(gifts.value) :
                     /\ MakeGift(page[f[k]]).ok
                     /\ gifts.value[k] = MakeGift(page[f[k]]).v
      /\ Len(page) = 0 => gifts = Returned(<<>>)

\* Two rows with different ids were both emitted.
C8_Witness ==
    /\ gifts.status = "returned"
    /\ Len(gifts.value) = 2
    /\ gifts.value[1].id = 2 /\ gifts.value[2].id = 1

-----------------------------------------------------------------------------
\* Properties of get_gift_info.

InfoCalled == info.status # "none"

\* C4: whatever the page holds, get_gift_info returns (never raises), and in
\* the record is_sale is true exactly when ton_price is present.
C4_SaleIffTonPrice ==
    InfoCalled =>
      /\ info.status = "returned"
      /\ info.value.is_sale <=> info.value.ton_price.some

\* A primary price "1," after a nested label was read as 1.
C4_Witness ==
    /\ info.status = "returned"
    /\ doc.bid.some /\ doc.bid.v.ton = Some(<<Nested(<<"1">>), Direct(<<"1", ",">>)>>)
    /\ info.value.ton_price = Some([m |-> 1, e |-> 0])
    /\ info.value.is_sale

\* The rows of the attributes table that carry key k (two cells or more).
RowsWithKey(k) ==
    {i \in 1..Len(FixedRows(doc)) :
        /\ Len(FixedRows(doc)[i]) >= 2
        /\ Lower(GetTextStrip(FixedRows(doc)[i][1])) = k}
LastOf(S) == CHOOSE i \in S : \A j \in S : j <= i

\* What a field must be for key k.
Cleaned(k) ==
    IF RowsWithKey(k) = {} THEN Unknown
    ELSE LET t == GetTextStrip(FixedRows(doc)[LastOf(RowsWithKey(k))][2])
         IN IF \E i \in 1..Len(t) : t[i] = " "
            THEN CHOOSE u \in {SubSeq(t, 1, n) : n \in 0..(Len(t) - 1)} :
                    /\ t[Len(u) + 1] = " "
                    /\ \A j \in (Len(u) + 2)..Len(t) : t[j] # " "
            ELSE t

\* C5: model, backdrop and symbol are "Unknown" when no row has the key, the
\* cell text before its last space when the text has a space, and the whole
\* cell text otherwise.
C5_CleanedFields ==
    InfoCalled =>
      /\ info.value.model = Cleaned(KeyModel)
      /\ info.value.backdrop = Cleaned(KeyBackdrop)
      /\ info.value.symbol = Cleaned(KeySymbol)

\* A model cell "D S 3" was cut to "D S".
C5_Witness ==
    /\ info.status = "returned"
    /\ RowsWithKey(KeyModel) # {}
    /\ info.value.model = <<"D", " ", "S">>
    /\ info.value.backdrop = Unknown

\* The history rows that have three cells or more.
LongRows == {i \in 1..Len(doc.hist) : Len(doc.hist[i]) >= 3}

\* C6: history has exactly one entry per history row of three cells or more,
\* in document order, holding the trimmed texts of the first three cells as
\* price, date and buyer (price as text); shorter rows are skipped.
C6_HistoryRows ==
    InfoCalled =>
      /\ info.status = "returned"
      /\ Len(info.value.history) = Cardinality(LongRows)
      /\ \E f \in [1..Len(info.value.history) -> LongRows] :
            /\ \A j, k \in DOMAIN f : j < k => f[j] < f[k]
            /\ \A k \in DOMAIN f :
                  LET h == info.value.history[k]
                      r == doc.hist[f[k]]
                  IN /\ h.price = GetTextStrip(r[1])
                     /\ h.date = GetTextStrip(r[2])
                     /\ h.buyer = GetTextStrip(r[3])

\* A short row between two long rows was skipped and the order kept.
C6_Witness ==
    /\ info.status = "returned"
    /\ Len(doc.hist) = 2 /\ Len(doc.hist[1]) = 2 /\ Len(doc.hist[2]) = 4
    /\ Len(info.value.history) = 1
    /\ info.value.history[1].price = <<"B", "o">>
    /\ info.value.history[1].date = <<"1", "0", " ", "T">>

\* C7: the record's id and type are the arguments of the call, whatever the page.
C7_IdTypeFromArgs ==
    InfoCalled => info.value.id = args[1] /\ info.value.type = args[2]

\* A call with id 2 and type "b" on a page with an attributes table returned.
C7_Witness ==
    /\ info.status = "returned"
    /\ args = <<2, <<"b">>>>
    /\ doc.fixed.some /\ Len(doc.fixed.v) > 0
    /\ info.value.id = 2

\* C9: without attributes table, get_gift_info returns (no error) a record with
\* owner, model, backdrop and symbol "Unknown" and issued empty.
C9_NoTableAllDefaults ==
    (InfoCalled /\ ~doc.fixed.some) =>
      /\ info.status = "returned"
      /\ info.value.owner = Unknown
      /\ info.value.model = Unknown
      /\ info.value.backdrop = Unknown
      /\ info.value.symbol = Unknown
      /\ info.value.issued = <<>>

\* A page with a price block but no attributes table gave the defaults.
C9_Witness ==
    /\ info.status = "returned"
    /\ ~doc.fixed.some /\ doc.bid.some
    /\ info.value.owner = Unknown /\ info.value.issued = <<>>
    /\ info.value.is_sale

-----------------------------------------------------------------------------
\* FragmentClient session handling (src/main.py:42-55).
\* sessions[s].by is who constructed session s ("caller" or a client),
\* sessions[s].closedBy is the set of those who called close() on it.

FreeSession == [state |-> "free", by |-> "nobody", closedBy |-> {}]
NewSession(who) == [state |-> "open", by |-> who, closedBy |-> {}]
\* session.close()
CloseSession(ss, who) == [ss EXCEPT !.state = "closed", !.closedBy = @ \cup {who}]

Unmade == [made |-> FALSE, session |-> None, own |-> FALSE, last |-> "none"]
FreeIds == {s \in SessionIds : sessions[s].state = "free"}
NextId == CHOOSE s \in FreeIds : \A r \in FreeIds : s <= r

\* The caller makes a session of its own, and may close it.
CallerOpen ==
    /\ FreeIds # {}
    /\ sessions' = [sessions EXCEPT ![NextId] = NewSession("caller")]
    /\ UNCHANGED <<page, gifts, doc, args, info, clients>>

CallerClose(s) ==
    /\ sessions[s].by = "caller"
    /\ sessions' = [sessions EXCEPT ![s] = CloseSession(@, "caller")]
    /\ UNCHANGED <<page, gifts, doc, args, info, clients>>

\* __init__(session)
Construct(c, session) ==
    /\ ~clients[c].made
    /\ clients' = [clients EXCEPT ![c] =
            [made |-> TRUE, session |-> session, own |-> FALSE, last |-> "init"]]
    /\ UNCHANGED <<page, gifts, doc, args, info, sessions>>

\* if not self._session
NeedsSession(cl) == ~cl.session.some

\* __aenter__
AEnter(c) ==
    /\ clients[c].made
    /\ IF NeedsSession(clients[c])
       THEN /\ FreeIds # {}
            /\ sessions' = [sessions EXCEPT ![NextId] = NewSession(c)]
            /\ clients' = [clients EXCEPT ![c].session = Some(NextId),
                                          ![c].own = TRUE, ![c].last = "enter"]
       ELSE /\ clients' = [clients EXCEPT ![c].last = "enter"]
            /\ UNCHANGED sessions
    /\ UNCHANGED <<page, gifts, doc, args, info>>

\* (variant: the ownership flag is not consulted)
ShouldClose_AnySession(cl) == cl.session.some

\* if self._own_session and self._session
ShouldClose(cl) == cl.own /\ cl.session.some

\* __aexit__
AExit(c) ==
    /\ clients[c].made
    /\ IF ShouldClose(clients[c])
       THEN sessions' = [sessions EXCEPT ![clients[c].session.v] = CloseSession(@, c)]
       ELSE UNCHANGED sessions
    /\ clients' = [clients EXCEPT ![c].last = "exit"]
    /\ UNCHANGED <<page, gifts, doc, args, info>>

InitSession ==
    /\ clients = [c \in Clients |-> Unmade]
    /\ sessions = [s \in SessionIds |-> FreeSession]
    /\ page = NoPage /\ gifts = NotCalled
    /\ doc = NoDoc /\ args = NoArgs /\ info = NotCalled

CallerSessions == {s \in SessionIds : sessions[s].by = "caller"}

NextSession ==
    \/ CallerOpen
    \/ \E s \in SessionIds : CallerClose(s)
    \/ \E c \in Clients, session \in Opt(CallerSessions) : Construct(c, session)
    \/ \E c \in Clients : AEnter(c)
    \/ \E c \in Clients : AExit(c)

SpecSession == InitSession /\ [][NextSession]_vars

\* C10: a client calls close() only on a session it made itself, so a session
\* the caller supplied is never closed by a client's exit; and once a client
\* that made a session on entry has exited, that session is closed.
C10_ClosesOnlyOwnSession ==
    /\ \A s \in SessionIds : \A c \in Clients :
          c \in sessions[s].closedBy => sessions[s].by = c
    /\ \A c \in Clients : \A s \in SessionIds :
          (clients[c].session = Some(s) /\ sessions[s].by = "caller")
              => c \notin sessions[s].closedBy
    /\ \A c \in Clients : \A s \in SessionIds :
          (clients[c].last = "exit" /\ sessions[s].by = c)
              => sessions[s].state = "closed" /\ c \in sessions[s].closedBy

\* One client has exited around a supplied session, still open; the other has
\* exited around a session it made, now closed.
C10_Witness ==
    /\ clients["c1"].last = "exit" /\ clients["c1"].session = Some(1)
    /\ sessions[1].by = "caller" /\ sessions[1].state = "open"
    /\ clients["c2"].last = "exit" /\ clients["c2"].session = Some(2)
    /\ sessions[2].by = "c2" /\ sessions[2].state = "closed"

====
